---- MODULE Spec2Model ----
(***************************************************************************)
(* Model of the mini-golf kiosk of src/main.py: the GolfGreen widget's     *)
(* turn/round state machine, its touch placement (on_touch_down and the    *)
(* delayed _place_ball), the sensor path (handle_hole_event and its        *)
(* delayed next_player) and the scoring function distance_to_reading.      *)
(*                                                                         *)
(* Lengths are integers in hundredths of a pixel, so that the hole         *)
(* centres pos_hint * size of the configuration are exact.                 *)
(***************************************************************************)
EXTENDS Integers, Sequences, FiniteSets, TLC

\* ------------------------------------------------------------------------
\* Config (src/main.py:23-34)
\* ------------------------------------------------------------------------
MIN_READING == 0
MAX_READING == 10
MAX_PLAYERS == 3
MAX_ROUNDS == 10

\* "no value": Python's None, and a key missing from a dict; an integer that
\* is no coordinate and no reading
None == -999999

\* the ids of HOLES, in list order
HoleIds == 1..5

\* HOLES[i]["pos_hint"], in 1/10000 of the widget's size
HOLES_pos_hint ==
    <<  <<913, 6378>>, <<3620, 7678>>, <<1985, 2817>>, <<7452, 2276>>, <<9331, 3715>> >>

\* the widget's box: Kivy's default Widget pos (0, 0) and size (100, 100),
\* in hundredths of a pixel
WidgetX == 0
WidgetY == 0
Width == 10000
Height == 10000

\* ball_x / ball_y of a ball that is not on the green (-1000 px)
OffGreen == -100000

\* ------------------------------------------------------------------------
\* Bounds of the model
\* ------------------------------------------------------------------------
\* Spec: the game over all its rounds.  The code never stops current_round;
\* the model follows it up to MaxRound
MaxRound == 11
\* entries in all the score histories together
MaxEntries == 1
\* Clock callbacks scheduled and not yet run, per callback
MaxScheduled == 1
\* SpecTurn: the first rounds, with more placements and more pending callbacks
TurnMaxRound == 2
TurnMaxEntries == 2
TurnMaxScheduled == 2
\* register_players is called with a count in MinCount..MaxCount
MinCount == 0
MaxCount == 4
\* SpecScore: distances 0..MaxDist, maxima -MaxNegDist..MaxMaxDist
MaxDist == 14
MaxMaxDist == 9
MaxNegDist == 2
\* SpecLink: ids put on bt_event_queue, and bytes in a worker's buffer
MaxPuts == 2
MaxBuffer == 6
\* SpecLinkFair: the same, for the progress of the workers
FairMaxPuts == 1

\* ------------------------------------------------------------------------
\* Inputs
\* ------------------------------------------------------------------------
Max(a, b) == IF a >= b THEN a ELSE b
Min(a, b) == IF a <= b THEN a ELSE b

\* get_scaled_hole_pos(hole): x + phx * max(0, width), y + phy * max(0, height)
get_scaled_hole_pos(i) ==
    << WidgetX + (HOLES_pos_hint[i][1] * Max(0, Width)) \div 10000,
       WidgetY + (HOLES_pos_hint[i][2] * Max(0, Height)) \div 10000 >>

\* touch positions tried (window coordinates): the centre of hole 2 and a
\* point beside the green, on the side panel
TouchOnHole == get_scaled_hole_pos(2)
TouchBeside == << WidgetX + Width + 1000, WidgetY + Height \div 2 >>
TouchInputs == {TouchOnHole, TouchBeside}

\* hole ids delivered by the sensors: a configured one and an unknown one
HoleEventIds == {2, 9}

Modes == {"Normal", "Practice"}

\* the data sock.recv returns to thread w, as sequences of characters: lines
\* of the expected format about the thread's own hole, other lines, and a
\* line that arrives in two pieces
Chars(tag, id, flag) == tag \o <<":">> \o id \o <<":">> \o flag
HOLE == << "H", "O", "L", "E" >>
LineHoleOn(w) == Chars(HOLE, << ToString(w) >>, <<"1">>)
LineHoleOff(w) == Chars(HOLE, << ToString(w) >>, <<"0">>)
LineFourFields(w) == LineHoleOn(w) \o << ":", "1" >>
LineTwoFields(w) == HOLE \o << ":", ToString(w) >>
LineGarbage == << "G", "A", "R", "B", "A", "G", "E" >>
LineNoInteger == Chars(HOLE, <<"x">>, <<"1">>)
LineWrongTag == Chars(<< "H", "O", "L", "X" >>, <<"3">>, <<"1">>)
LineUnknownHole == Chars(HOLE, <<"9">>, <<"1">>)
RecvChunks(w) ==
    { LineHoleOn(w) \o << "\r", "\n" >>,
      LineHoleOff(w) \o << "\n" >>,
      LineFourFields(w) \o << "\n" >>,
      LineTwoFields(w),
      << ":", "1", "\n" >>,
      LineGarbage \o << "\n" >>,
      LineNoInteger \o << "\n" >>,
      LineWrongTag \o << "\n" >>,
      LineUnknownHole \o << "\n" >> }

\* what discover_devices, connect and recv can do besides returning data
ScanOutcomes == {"found", "not_found", "error"}
ConnectOutcomes == {"connected", "connect_error", "socket_error"}
RecvFailures == {"remote_closed", "bluetooth_error", "io_error", "other_error"}

\* the bt_listen_thread threads of the model, by the hole_id they are
\* started with: two of the keys of HOLE_NAME_PREFIXES
Workers == {2, 3}

VARIABLES
    players,                \* ListProperty: sequence of names
    current_player_index,
    current_round,
    current_player,         \* StringProperty, "" when unset
    player_scores,          \* DictProperty: name -> sequence of scores
    live_points_by_hole,    \* DictProperty: hole id -> points (None = no key)
    ball_x, ball_y,
    holes,                  \* holes[i] is HOLES[i]["last_points"]
    ball_placed,
    mode, mode_selected,
    game_started,
    _accept_touches,
    _touch_x, _touch_y,     \* None until a touch was accepted
    place_ball_scheduled,   \* Clock.schedule_once(self._place_ball, 0.05) pending
    next_player_scheduled,  \* Clock.schedule_once(lambda: next_player(), 1.0) pending
    \* history variables (not program state)
    \* a turn begins when register_players, start_game or next_player takes effect
    turn_touch_credits,     \* entries appended by _place_ball since the turn began
    turn_hole_credits,      \* entries appended by handle_hole_event since then
    turn_touched,           \* on_touch_down has scheduled a _place_ball since then
    turn_replaced,          \* replace_ball has unlocked the ball since then
    shrunk_pending,         \* the last operation was a register_players that
                            \* reduced the number of players while a scheduled
                            \* next_player was pending
    registered_count,       \* the count the last operation, a register_players,
                            \* was called with (None after any other operation)
    \* a call of distance_to_reading on its own: arguments and result
    reading_dist, reading_max_dist, reading,
    \* the sensor link
    bt_event_queue,         \* Queue(): sequence of hole ids
    bt_events_scheduled,    \* Clock.schedule_once(lambda: app.on_bt_event(hid), 0)
                            \* pending, in the order they were scheduled
    poller_running,         \* process_bt_queue is in its while loop
    worker_pc,              \* per bt_listen_thread: where it is
    worker_sock,            \* per bt_listen_thread: its local sock
    worker_buffer,          \* per bt_listen_thread: its local buffer
    \* history variables of the sensor link
    put_log,                \* the ids put on bt_event_queue, in order
    handled_log             \* the ids passed to handle_hole_event, in order

gameVars == << players, current_player_index, current_round, current_player,
               player_scores, ball_x, ball_y, ball_placed, game_started >>
holeVars == << holes, live_points_by_hole >>
touchVars == << mode, mode_selected, _accept_touches, _touch_x, _touch_y >>
clockVars == << place_ball_scheduled, next_player_scheduled >>
turnVars == << turn_touch_credits, turn_hole_credits, turn_touched, turn_replaced >>
histVars == << turnVars, shrunk_pending, registered_count >>
scoreVars == << reading_dist, reading_max_dist, reading >>
linkVars == << bt_event_queue, bt_events_scheduled, poller_running,
               worker_pc, worker_sock, worker_buffer, put_log, handled_log >>
vars == << gameVars, holeVars, touchVars, clockVars, histVars, scoreVars, linkVars >>

\* ------------------------------------------------------------------------
\* Helpers
\* ------------------------------------------------------------------------
\* f"Player {i+1}" for i in range(count)
PlayerNames(count) == [i \in 1..count |-> "Player " \o ToString(i)]

\* {p: [] for p in names}
EmptyScores(names) == [p \in {names[i] : i \in DOMAIN names} |-> << >>]

\* player_scores.setdefault(name, []).append(score)
AppendScore(scores, name, score) ==
    [p \in DOMAIN scores \cup {name} |->
        IF p = name
        THEN Append(IF name \in DOMAIN scores THEN scores[name] ELSE << >>, score)
        ELSE scores[p]]

RECURSIVE SumLen(_, _)
SumLen(scores, names) ==
    IF names = {} THEN 0
    ELSE LET p == CHOOSE q \in names : TRUE
         IN Len(scores[p]) + SumLen(scores, names \ {p})

\* number of entries in all the score histories
TotalEntries(scores) == SumLen(scores, DOMAIN scores)

\* ------------------------------------------------------------------------
\* Scoring
\* ------------------------------------------------------------------------
RECURSIVE ISqrtIter(_, _, _)
ISqrtIter(n, lo, hi) ==
    IF lo >= hi THEN lo
    ELSE LET mid == (lo + hi + 1) \div 2
         IN IF mid * mid <= n THEN ISqrtIter(n, mid, hi) ELSE ISqrtIter(n, lo, mid - 1)

\* math.hypot(dx, dy), rounded down to a hundredth of a pixel
Hypot(dx, dy) == ISqrtIter(dx * dx + dy * dy, 0, 46340)

\* int(round(num / den)) for den > 0: Python rounds halves to the even integer
RoundHalfEven(num, den) ==
    LET q == num \div den
        r == num % den
    IN  IF 2 * r < den THEN q
        ELSE IF 2 * r > den THEN q + 1
        ELSE IF q % 2 = 0 THEN q ELSE q + 1

\* distance_to_reading returning MAX_READING for max_dist <= 0
distance_to_reading_FullOnBadMax(dist, max_dist) ==
    LET normNum == IF max_dist <= 0 THEN 1 ELSE Min(max_dist, dist)
        normDen == IF max_dist <= 0 THEN 1 ELSE max_dist
        pts == RoundHalfEven(MIN_READING * normDen + normNum * (MAX_READING - MIN_READING),
                             normDen)
    IN  Max(MIN_READING, Min(MAX_READING, pts))

distance_to_reading(dist, max_dist) ==
    LET \* norm = normNum / normDen
        normNum == IF max_dist <= 0 THEN 0 ELSE Min(max_dist, dist)
        normDen == IF max_dist <= 0 THEN 1 ELSE max_dist
        \* cont = MIN_READING + norm * (MAX_READING - MIN_READING)
        pts == RoundHalfEven(MIN_READING * normDen + normNum * (MAX_READING - MIN_READING),
                             normDen)
    IN  Max(MIN_READING, Min(MAX_READING, pts))

\* the loop of _place_ball over self.holes: pts of every hole for a ball at
\* local position (local_x, local_y)
HolePoints(local_x, local_y) ==
    LET max_dist == Hypot(Max(100, Width), Max(100, Height))
    IN  [i \in HoleIds |->
            LET h == get_scaled_hole_pos(i)
                local_hx == h[1] - WidgetX
                local_hy == h[2] - WidgetY
                dist == Hypot(local_hx - local_x, local_hy - local_y)
            IN  distance_to_reading(dist, max_dist)]

\* nearest = min(results, key=lambda t: t[1]); hit = nearest and nearest[1] == 0
Hit(points) ==
    LET nearest == CHOOSE i \in HoleIds :
                      /\ \A j \in HoleIds : points[i] <= points[j]
                      /\ \A j \in HoleIds : points[j] = points[i] => i <= j
    IN  points[nearest] = 0

\* no call of distance_to_reading on its own yet
ScoreIdle ==
    /\ reading_dist = None
    /\ reading_max_dist = None
    /\ reading = None

\* the sensor link before MiniGolfApp.on_start
LinkIdle ==
    /\ bt_event_queue = << >>
    /\ bt_events_scheduled = << >>
    /\ poller_running = FALSE
    /\ worker_pc = [w \in Workers |-> "not_started"]
    /\ worker_sock = [w \in Workers |-> "None"]
    /\ worker_buffer = [w \in Workers |-> << >>]
    /\ put_log = << >>
    /\ handled_log = << >>

\* ------------------------------------------------------------------------
\* Line decoding (bt_listen_thread, src/main.py:345-363)
\* ------------------------------------------------------------------------
Whitespace == {" ", "\t", "\r", "\n"}
Digits == {"0", "1", "2", "3", "4", "5", "6", "7", "8", "9"}

\* position of the first c in s, 0 when there is none
RECURSIVE IndexFrom(_, _, _)
IndexFrom(s, c, i) ==
    IF i > Len(s) THEN 0
    ELSE IF s[i] = c THEN i ELSE IndexFrom(s, c, i + 1)

IndexOf(s, c) == IndexFrom(s, c, 1)

\* line.decode(errors="ignore"): bytes that are no text are dropped
DecodeIgnore(bytes) == SelectSeq(bytes, LAMBDA b : b # "xFF")

\* str.strip()
RECURSIVE LStrip(_)
LStrip(s) == IF s # << >> /\ Head(s) \in Whitespace THEN LStrip(Tail(s)) ELSE s

RECURSIVE RStrip(_)
RStrip(s) ==
    IF s # << >> /\ s[Len(s)] \in Whitespace
    THEN RStrip(SubSeq(s, 1, Len(s) - 1)) ELSE s

Strip(s) == RStrip(LStrip(s))

\* str.split(sep): the fields between the separators, at least one
RECURSIVE Split(_, _)
Split(s, sep) ==
    LET i == IndexOf(s, sep)
    IN  IF i = 0 THEN << s >>
        ELSE << SubSeq(s, 1, i - 1) >> \o Split(SubSeq(s, i + 1, Len(s)), sep)

DigitValue(c) == CHOOSE v \in 0..9 : ToString(v) = c

RECURSIVE DigitsValue(_, _)
DigitsValue(s, acc) ==
    IF s = << >> THEN acc ELSE DigitsValue(Tail(s), 10 * acc + DigitValue(Head(s)))

\* int(text): surrounding whitespace, an optional sign, then digits, with
\* single underscores allowed between digits; ok = FALSE for a ValueError
ParseInt(text) ==
    LET t == Strip(text)
        signed == t # << >> /\ Head(t) \in {"+", "-"}
        body == IF signed THEN Tail(t) ELSE t
        wellFormed ==
            /\ body # << >>
            /\ \A i \in 1..Len(body) : body[i] \in Digits \cup {"_"}
            /\ body[1] \in Digits /\ body[Len(body)] \in Digits
            /\ \A i \in 1..(Len(body) - 1) : ~(body[i] = "_" /\ body[i + 1] = "_")
        magnitude == DigitsValue(SelectSeq(body, LAMBDA c : c \in Digits), 0)
    IN  IF wellFormed
        THEN [ok |-> TRUE,
              value |-> IF signed /\ Head(t) = "-" THEN 0 - magnitude ELSE magnitude]
        ELSE [ok |-> FALSE, value |-> 0]

\* the ids one line puts on bt_event_queue: none or one
DecodeLine(line) ==
    LET s == Strip(DecodeIgnore(line))
        parts == Split(s, ":")
    IN  IF s = << >> THEN << >>
        ELSE IF Len(parts) >= 3 /\ parts[1] = HOLE
             THEN LET hid == ParseInt(parts[2])
                  IN  IF hid.ok /\ parts[3] # << >> /\ parts[3][1] = "1"
                      THEN << hid.value >> ELSE << >>
             ELSE << >>

\* while b"\n" in buffer: line, buffer = buffer.split(b"\n", 1); ...
\* the ids put, in order, and the bytes left in the buffer
RECURSIVE ProcessBuffer(_)
ProcessBuffer(buffer) ==
    LET i == IndexOf(buffer, "\n")
    IN  IF i = 0 THEN [puts |-> << >>, buffer |-> buffer]
        ELSE LET rest == ProcessBuffer(SubSeq(buffer, i + 1, Len(buffer)))
             IN  [puts |-> DecodeLine(SubSeq(buffer, 1, i - 1)) \o rest.puts,
                  buffer |-> rest.buffer]

Init ==
    /\ ScoreIdle
    /\ LinkIdle
    /\ players = << >>
    /\ current_player_index = 0
    /\ current_round = 1
    /\ current_player = ""
    /\ player_scores = << >>
    /\ live_points_by_hole = [i \in HoleIds |-> None]
    /\ ball_x = OffGreen
    /\ ball_y = OffGreen
    /\ holes = [i \in HoleIds |-> None]
    /\ ball_placed = FALSE
    /\ mode = ""
    /\ mode_selected = FALSE
    /\ game_started = FALSE
    /\ _accept_touches = FALSE
    /\ _touch_x = None
    /\ _touch_y = None
    /\ place_ball_scheduled = 0
    /\ next_player_scheduled = 0
    /\ turn_touch_credits = 0
    /\ turn_hole_credits = 0
    /\ turn_touched = FALSE
    /\ turn_replaced = FALSE
    /\ shrunk_pending = FALSE
    /\ registered_count = None

\* ------------------------------------------------------------------------
\* Operations
\* ------------------------------------------------------------------------
\* a turn begins: the history of the turn starts afresh
NewTurn ==
    /\ turn_touch_credits' = 0
    /\ turn_hole_credits' = 0
    /\ turn_touched' = FALSE
    /\ turn_replaced' = FALSE

\* Clock.schedule_once(self._enable_touches, 0.5), scheduled by __init__
_enable_touches ==
    /\ ~_accept_touches
    /\ _accept_touches' = TRUE
    /\ UNCHANGED << gameVars, holeVars, mode, mode_selected, _touch_x, _touch_y,
                    clockVars, turnVars >>
    /\ shrunk_pending' = FALSE
    /\ registered_count' = None

\* the presentation layer (not in main.py) sets the mode properties; the
\* model lets it choose the mode once
select_mode(m) ==
    /\ ~mode_selected
    /\ mode' = m
    /\ mode_selected' = TRUE
    /\ UNCHANGED << gameVars, holeVars, _accept_touches, _touch_x, _touch_y,
                    clockVars, turnVars >>
    /\ shrunk_pending' = FALSE
    /\ registered_count' = None

\* register_players without the reset of current_player_index
register_players_KeepsIndex(count) ==
    LET c == Max(1, Min(count, MAX_PLAYERS))
        names == PlayerNames(c)
    IN  /\ players' = names
        /\ player_scores' = EmptyScores(names)
        /\ current_round' = 1
        /\ current_player' = IF Len(names) > 0 THEN names[1] ELSE ""
        /\ ball_placed' = FALSE
        /\ game_started' = FALSE
        /\ NewTurn
        /\ shrunk_pending' = (next_player_scheduled > 0 /\ c < Len(players))
        /\ registered_count' = count
        /\ UNCHANGED << current_player_index, ball_x, ball_y, holeVars, touchVars,
                        clockVars >>

\* register_players without the clamp of count
register_players_NoClamp(count) ==
    LET c == count
        names == PlayerNames(c)
    IN  /\ players' = names
        /\ player_scores' = EmptyScores(names)
        /\ current_player_index' = 0
        /\ current_round' = 1
        /\ current_player' = IF Len(names) > 0 THEN names[1] ELSE ""
        /\ ball_placed' = FALSE
        /\ game_started' = FALSE
        /\ NewTurn
        /\ shrunk_pending' = (next_player_scheduled > 0 /\ c < Len(players))
        /\ registered_count' = count
        /\ UNCHANGED << ball_x, ball_y, holeVars, touchVars, clockVars >>

register_players(count) ==
    LET c == Max(1, Min(count, MAX_PLAYERS))
        names == PlayerNames(c)
    IN  /\ players' = names
        /\ player_scores' = EmptyScores(names)
        /\ current_player_index' = 0
        /\ current_round' = 1
        /\ current_player' = IF Len(names) > 0 THEN names[1] ELSE ""
        /\ ball_placed' = FALSE
        /\ game_started' = FALSE
        /\ NewTurn
        /\ shrunk_pending' = (next_player_scheduled > 0 /\ c < Len(players))
        /\ registered_count' = count
        /\ UNCHANGED << ball_x, ball_y, holeVars, touchVars, clockVars >>

start_game ==
    /\ IF Len(players) = 0
       THEN UNCHANGED << gameVars, turnVars >>
       ELSE /\ game_started' = TRUE
            /\ ball_placed' = FALSE
            /\ current_player_index' = 0
            /\ current_player' = players[1]
            /\ NewTurn
            /\ UNCHANGED << players, current_round, player_scores, ball_x, ball_y >>
    /\ shrunk_pending' = FALSE
    /\ registered_count' = None
    /\ UNCHANGED << holeVars, touchVars, clockVars >>

replace_ball ==
    /\ IF ~game_started \/ current_player_index # 0
       THEN UNCHANGED << ball_x, ball_y, ball_placed, turn_replaced >>
       ELSE /\ ball_x' = OffGreen
            /\ ball_y' = OffGreen
            /\ ball_placed' = FALSE
            /\ turn_replaced' = TRUE
    /\ UNCHANGED << players, current_player_index, current_round, current_player,
                    player_scores, game_started, holeVars, touchVars, clockVars,
                    turn_touch_credits, turn_hole_credits, turn_touched >>
    /\ shrunk_pending' = FALSE
    /\ registered_count' = None

\* the part of the state next_player reads and writes
Game ==
    [ players |-> players, current_player_index |-> current_player_index,
      current_round |-> current_round, current_player |-> current_player,
      ball_placed |-> ball_placed, ball_x |-> ball_x, ball_y |-> ball_y ]

\* next_player unlocking the ball for every player, not only on a new round
next_player_body_UnlocksEveryTurn(g) ==
    IF Len(g.players) = 0 THEN g
    ELSE LET index == g.current_player_index + 1
         IN  IF index >= Len(g.players)
             THEN IF g.current_round + 1 > MAX_ROUNDS
                  THEN [g EXCEPT !.current_player_index = 0,
                                 !.current_round = g.current_round + 1]
                  ELSE [g EXCEPT !.current_player_index = 0,
                                 !.current_round = g.current_round + 1,
                                 !.ball_placed = FALSE,
                                 !.ball_x = OffGreen,
                                 !.ball_y = OffGreen,
                                 !.current_player = g.players[1]]
             ELSE [g EXCEPT !.current_player_index = index,
                            !.ball_placed = FALSE,
                            !.ball_x = OffGreen,
                            !.ball_y = OffGreen,
                            !.current_player = g.players[index + 1]]

\* the body of next_player, on a state g of the shape of Game
next_player_body(g) ==
    IF Len(g.players) = 0 THEN g
    ELSE LET index == g.current_player_index + 1
         IN  IF index >= Len(g.players)
             THEN IF g.current_round + 1 > MAX_ROUNDS
                  THEN \* "Reached max rounds": returns before the assignments below
                       [g EXCEPT !.current_player_index = 0,
                                 !.current_round = g.current_round + 1]
                  ELSE [g EXCEPT !.current_player_index = 0,
                                 !.current_round = g.current_round + 1,
                                 !.ball_placed = FALSE,
                                 !.ball_x = OffGreen,
                                 !.ball_y = OffGreen,
                                 !.current_player = g.players[1]]
             ELSE [g EXCEPT !.current_player_index = index,
                            !.current_player = g.players[index + 1]]

\* the state change of a call of next_player
NextPlayerCall ==
    LET g == next_player_body(Game)
    IN  /\ current_player_index' = g.current_player_index
        /\ current_round' = g.current_round
        /\ current_player' = g.current_player
        /\ ball_placed' = g.ball_placed
        /\ ball_x' = g.ball_x
        /\ ball_y' = g.ball_y
        /\ IF Len(players) = 0
           THEN UNCHANGED turnVars
           ELSE NewTurn
        /\ UNCHANGED << players, player_scores, game_started, holeVars, touchVars >>

\* next_player called by the presentation layer (button)
next_player ==
    /\ NextPlayerCall
    /\ shrunk_pending' = FALSE
    /\ registered_count' = None
    /\ UNCHANGED clockVars

\* the callback scheduled by handle_hole_event runs
scheduled_next_player ==
    /\ next_player_scheduled > 0
    /\ next_player_scheduled' = next_player_scheduled - 1
    /\ shrunk_pending' = FALSE
    /\ registered_count' = None
    /\ NextPlayerCall
    /\ UNCHANGED place_ball_scheduled

\* clear_scores emptying the current player's history only
clear_scores_OnlyCurrent ==
    /\ player_scores' = [p \in DOMAIN player_scores |->
                            IF p = current_player THEN << >> ELSE player_scores[p]]
    /\ UNCHANGED << players, current_player_index, current_round, current_player,
                    ball_x, ball_y, ball_placed, game_started, holeVars, touchVars,
                    clockVars, turnVars >>
    /\ shrunk_pending' = FALSE
    /\ registered_count' = None

clear_scores ==
    /\ player_scores' = EmptyScores(players)
    /\ UNCHANGED << players, current_player_index, current_round, current_player,
                    ball_x, ball_y, ball_placed, game_started, holeVars, touchVars,
                    clockVars, turnVars >>
    /\ shrunk_pending' = FALSE
    /\ registered_count' = None

\* side.collide_point(*touch.pos): the side panel lies beside the green
SidePanelCollide(touch) == touch[1] > WidgetX + Width

\* self.collide_point(*touch.pos)
collide_point(touch) ==
    /\ WidgetX <= touch[1] /\ touch[1] <= WidgetX + Width
    /\ WidgetY <= touch[2] /\ touch[2] <= WidgetY + Height

\* on_touch_down schedules _place_ball for this touch
TouchAccepted(touch) ==
    /\ _accept_touches
    /\ mode_selected /\ mode = "Normal" /\ game_started
    /\ ~SidePanelCollide(touch)
    /\ collide_point(touch)
    /\ ~ball_placed

on_touch_down(touch) ==
    /\ IF TouchAccepted(touch)
       THEN /\ _touch_x' = touch[1] - WidgetX
            /\ _touch_y' = touch[2] - WidgetY
            /\ place_ball_scheduled' = place_ball_scheduled + 1
            /\ turn_touched' = TRUE
       ELSE UNCHANGED << _touch_x, _touch_y, place_ball_scheduled, turn_touched >>
    /\ UNCHANGED << gameVars, holeVars, mode, mode_selected, _accept_touches,
                    next_player_scheduled, turn_touch_credits, turn_hole_credits,
                    turn_replaced >>
    /\ shrunk_pending' = FALSE
    /\ registered_count' = None

\* _place_ball without the check of ball_placed
PlaceBallReturnsEarly_NoLock == _touch_x = None \/ _touch_y = None

\* the early returns of _place_ball: ball already placed, or no touch stored
PlaceBallReturnsEarly == ball_placed \/ _touch_x = None \/ _touch_y = None

\* the callback scheduled by on_touch_down runs
_place_ball ==
    /\ place_ball_scheduled > 0
    /\ place_ball_scheduled' = place_ball_scheduled - 1
    /\ IF PlaceBallReturnsEarly
       THEN UNCHANGED << player_scores, ball_x, ball_y, ball_placed, holeVars,
                         turn_touch_credits >>
       ELSE LET points == HolePoints(_touch_x, _touch_y)
                score == IF Hit(points) THEN MAX_READING ELSE 0
            IN  /\ holes' = points
                /\ live_points_by_hole' = points
                /\ IF current_player # ""
                   THEN /\ player_scores' = AppendScore(player_scores, current_player, score)
                        /\ turn_touch_credits' = turn_touch_credits + 1
                   ELSE UNCHANGED << player_scores, turn_touch_credits >>
                /\ ball_x' = _touch_x
                /\ ball_y' = _touch_y
                /\ ball_placed' = TRUE
    /\ UNCHANGED << players, current_player_index, current_round, current_player,
                    game_started, touchVars, next_player_scheduled, turn_hole_credits,
                    turn_touched, turn_replaced >>
    /\ shrunk_pending' = FALSE
    /\ registered_count' = None

\* handle_hole_event without the return for an unknown hole id: the ball
\* stays where it is, the rest runs
handle_hole_event_NoIdCheck(hole_id) ==
    /\ IF hole_id \in HoleIds
       THEN LET h == get_scaled_hole_pos(hole_id)
            IN  /\ ball_x' = h[1] - WidgetX
                /\ ball_y' = h[2] - WidgetY
       ELSE UNCHANGED << ball_x, ball_y >>
    /\ ball_placed' = TRUE
    /\ IF current_player # ""
       THEN /\ player_scores' = AppendScore(player_scores, current_player, MAX_READING)
            /\ turn_hole_credits' = turn_hole_credits + 1
       ELSE UNCHANGED << player_scores, turn_hole_credits >>
    /\ next_player_scheduled' = next_player_scheduled + 1
    /\ UNCHANGED << players, current_player_index, current_round, current_player,
                    game_started, holeVars, touchVars, place_ball_scheduled,
                    turn_touch_credits, turn_touched, turn_replaced >>
    /\ shrunk_pending' = FALSE
    /\ registered_count' = None

handle_hole_event(hole_id) ==
    /\ IF hole_id \notin HoleIds
       THEN UNCHANGED << player_scores, ball_x, ball_y, ball_placed,
                         next_player_scheduled, turn_hole_credits >>
       ELSE LET h == get_scaled_hole_pos(hole_id)
            IN  /\ ball_x' = h[1] - WidgetX
                /\ ball_y' = h[2] - WidgetY
                /\ ball_placed' = TRUE
                /\ IF current_player # ""
                   THEN /\ player_scores' = AppendScore(player_scores, current_player,
                                                        MAX_READING)
                        /\ turn_hole_credits' = turn_hole_credits + 1
                   ELSE UNCHANGED << player_scores, turn_hole_credits >>
                /\ next_player_scheduled' = next_player_scheduled + 1
    /\ UNCHANGED << players, current_player_index, current_round, current_player,
                    game_started, holeVars, touchVars, place_ball_scheduled,
                    turn_touch_credits, turn_touched, turn_replaced >>
    /\ shrunk_pending' = FALSE
    /\ registered_count' = None

\* the bounds of a specification, on the state a step leads to
Within(maxRound, maxEntries, maxScheduled) ==
    /\ current_round <= maxRound
    /\ TotalEntries(player_scores) <= maxEntries
    /\ turn_touch_credits + turn_hole_credits <= maxEntries
    /\ place_ball_scheduled <= maxScheduled
    /\ next_player_scheduled <= maxScheduled

NextWithin(maxRound, maxEntries, maxScheduled) ==
    \/ _enable_touches /\ UNCHANGED << scoreVars, linkVars >>
    \/ \E m \in Modes : select_mode(m) /\ UNCHANGED << scoreVars, linkVars >>
    \/ \E count \in MinCount..MaxCount :
          register_players(count) /\ UNCHANGED << scoreVars, linkVars >>
    \/ start_game /\ UNCHANGED << scoreVars, linkVars >>
    \/ replace_ball /\ UNCHANGED << scoreVars, linkVars >>
    \/ /\ next_player /\ Within(maxRound, maxEntries, maxScheduled)'
       /\ UNCHANGED << scoreVars, linkVars >>
    \/ /\ scheduled_next_player /\ Within(maxRound, maxEntries, maxScheduled)'
       /\ UNCHANGED << scoreVars, linkVars >>
    \/ clear_scores /\ UNCHANGED << scoreVars, linkVars >>
    \/ \E touch \in TouchInputs :
          /\ on_touch_down(touch) /\ Within(maxRound, maxEntries, maxScheduled)'
          /\ UNCHANGED << scoreVars, linkVars >>
    \/ /\ _place_ball /\ Within(maxRound, maxEntries, maxScheduled)'
       /\ UNCHANGED << scoreVars, linkVars >>
    \/ \E hole_id \in HoleEventIds :
          /\ handle_hole_event(hole_id) /\ Within(maxRound, maxEntries, maxScheduled)'
          /\ UNCHANGED << scoreVars, linkVars >>

\* Spec: the game over all its rounds
Next == NextWithin(MaxRound, MaxEntries, MaxScheduled)

Spec == Init /\ [][Next]_vars

\* SpecTurn: the placements of the first turns, with more entries and more
\* pending callbacks
NextTurn == NextWithin(TurnMaxRound, TurnMaxEntries, TurnMaxScheduled)

SpecTurn == Init /\ [][NextTurn]_vars

\* ------------------------------------------------------------------------
\* The sensor link: MiniGolfApp.on_start, bt_listen_thread, process_bt_queue
\* and MiniGolfApp.on_bt_event
\* ------------------------------------------------------------------------
\* on_start: register_players(2), start_game(), then start_bluetooth_threads
on_start ==
    /\ \A w \in Workers : worker_pc[w] = "not_started"
    /\ players' = PlayerNames(2)
    /\ player_scores' = EmptyScores(PlayerNames(2))
    /\ current_player_index' = 0
    /\ current_round' = 1
    /\ current_player' = PlayerNames(2)[1]
    /\ ball_placed' = FALSE
    /\ game_started' = TRUE
    /\ NewTurn
    /\ shrunk_pending' = FALSE
    /\ registered_count' = None
    /\ worker_pc' = [w \in Workers |-> "scan"]
    /\ UNCHANGED << ball_x, ball_y, holeVars, touchVars, clockVars, scoreVars,
                    bt_event_queue, bt_events_scheduled, poller_running,
                    worker_sock, worker_buffer, put_log, handled_log >>

\* what a step of a worker thread leaves alone
WorkerFrame ==
    UNCHANGED << gameVars, holeVars, touchVars, clockVars, histVars, scoreVars,
                 bt_events_scheduled, poller_running, handled_log >>

\* bluetooth.discover_devices and the search for name_prefix.  When the
\* device is not found the thread sleeps and continues: the finally block
\* runs next, as it does after an exception
bt_discover(w, outcome) ==
    /\ worker_pc[w] = "scan"
    /\ worker_pc' = [worker_pc EXCEPT ![w] =
                        IF outcome = "found" THEN "connect" ELSE "finally"]
    /\ UNCHANGED << worker_sock, worker_buffer, bt_event_queue, put_log >>
    /\ WorkerFrame

\* sock = BluetoothSocket(RFCOMM); sock.connect(...); sock.settimeout(1.0);
\* buffer = b""
bt_connect(w, outcome) ==
    /\ worker_pc[w] = "connect"
    /\ worker_sock' = [worker_sock EXCEPT ![w] =
                          IF outcome = "socket_error" THEN @ ELSE "open"]
    /\ worker_buffer' = [worker_buffer EXCEPT ![w] =
                            IF outcome = "connected" THEN << >> ELSE @]
    /\ worker_pc' = [worker_pc EXCEPT ![w] =
                        IF outcome = "connected" THEN "recv" ELSE "finally"]
    /\ UNCHANGED << bt_event_queue, put_log >>
    /\ WorkerFrame

\* sock.recv returns data: the complete lines of the buffer are decoded and
\* their ids put on the queue
bt_recv_data(w, data) ==
    /\ worker_pc[w] = "recv"
    /\ worker_buffer' =
          [worker_buffer EXCEPT ![w] = ProcessBuffer(worker_buffer[w] \o data).buffer]
    /\ bt_event_queue' = bt_event_queue \o ProcessBuffer(worker_buffer[w] \o data).puts
    /\ put_log' = put_log \o ProcessBuffer(worker_buffer[w] \o data).puts
    /\ UNCHANGED << worker_pc, worker_sock >>
    /\ WorkerFrame

\* bt_recv_fails without the handler "except Exception" of the outer try
bt_recv_fails_Escapes(w, failure) ==
    /\ worker_pc[w] = "recv"
    /\ worker_pc' = [worker_pc EXCEPT ![w] =
                        IF failure = "other_error" THEN "dead" ELSE "finally"]
    /\ UNCHANGED << worker_sock, worker_buffer, bt_event_queue, put_log >>
    /\ WorkerFrame

\* sock.recv returns no data (IOError "remote closed") or raises: a timeout
\* or another BluetoothError, an IOError, or any other Exception.  The inner
\* handlers break, the outer one catches the rest: the finally block is next
bt_recv_fails(w, failure) ==
    /\ worker_pc[w] = "recv"
    /\ worker_pc' = [worker_pc EXCEPT ![w] = "finally"]
    /\ UNCHANGED << worker_sock, worker_buffer, bt_event_queue, put_log >>
    /\ WorkerFrame

\* finally: sock.close() if sock; time.sleep(BT_RETRY_DELAY); the outer loop
\* starts again
bt_finally(w) ==
    /\ worker_pc[w] = "finally"
    /\ worker_sock' = [worker_sock EXCEPT ![w] = IF @ = "None" THEN @ ELSE "closed"]
    /\ worker_pc' = [worker_pc EXCEPT ![w] = "scan"]
    /\ UNCHANGED << worker_buffer, bt_event_queue, put_log >>
    /\ WorkerFrame

\* what a step of process_bt_queue leaves alone
PollerFrame ==
    UNCHANGED << gameVars, holeVars, touchVars, clockVars, histVars, scoreVars,
                 worker_pc, worker_sock, worker_buffer, put_log, handled_log >>

\* the Clock calls process_bt_queue (schedule_interval, every 0.1 s)
process_bt_queue ==
    /\ \E w \in Workers : worker_pc[w] # "not_started"
    /\ ~poller_running
    /\ poller_running' = TRUE
    /\ UNCHANGED << bt_event_queue, bt_events_scheduled >>
    /\ PollerFrame

\* process_bt_queue_loop scheduling the newest event before the older ones
process_bt_queue_loop_NewestFirst ==
    /\ poller_running
    /\ IF bt_event_queue = << >>
       THEN /\ poller_running' = FALSE
            /\ UNCHANGED << bt_event_queue, bt_events_scheduled >>
       ELSE /\ bt_event_queue' = Tail(bt_event_queue)
            /\ bt_events_scheduled' = << Head(bt_event_queue) >> \o bt_events_scheduled
            /\ UNCHANGED poller_running
    /\ PollerFrame

\* one test of "while not bt_event_queue.empty()" and, when it holds, the
\* body: hole_id = get_nowait(); Clock.schedule_once(on_bt_event(hole_id), 0)
process_bt_queue_loop ==
    /\ poller_running
    /\ IF bt_event_queue = << >>
       THEN /\ poller_running' = FALSE
            /\ UNCHANGED << bt_event_queue, bt_events_scheduled >>
       ELSE /\ bt_event_queue' = Tail(bt_event_queue)
            /\ bt_events_scheduled' = Append(bt_events_scheduled, Head(bt_event_queue))
            /\ UNCHANGED poller_running
    /\ PollerFrame

\* the Clock runs the oldest scheduled on_bt_event(hid), on the main thread:
\* self.green.handle_hole_event(hole_id)
on_bt_event ==
    /\ ~poller_running
    /\ bt_events_scheduled # << >>
    /\ handle_hole_event(Head(bt_events_scheduled))
    /\ bt_events_scheduled' = Tail(bt_events_scheduled)
    /\ handled_log' = Append(handled_log, Head(bt_events_scheduled))
    /\ UNCHANGED << scoreVars, bt_event_queue, poller_running, worker_pc,
                    worker_sock, worker_buffer, put_log >>

NextLinkWithin(maxPuts) ==
    \/ on_start
    \/ \E w \in Workers, outcome \in ScanOutcomes : bt_discover(w, outcome)
    \/ \E w \in Workers, outcome \in ConnectOutcomes : bt_connect(w, outcome)
    \/ \E w \in Workers : \E data \in RecvChunks(w) :
          /\ bt_recv_data(w, data)
          /\ Len(put_log') <= maxPuts
          /\ Len(worker_buffer'[w]) <= MaxBuffer
    \/ \E w \in Workers, failure \in RecvFailures : bt_recv_fails(w, failure)
    \/ \E w \in Workers : bt_finally(w)
    \/ process_bt_queue
    \/ process_bt_queue_loop
    \/ on_bt_event
    \/ /\ ~poller_running
       /\ scheduled_next_player
       /\ UNCHANGED << scoreVars, linkVars >>

\* SpecLink: two sensor threads, the poller and the main thread's callbacks
NextLink == NextLinkWithin(MaxPuts)

SpecLink == Init /\ [][NextLink]_vars

\* SpecLinkFair: the same with fewer events, and threads that keep running:
\* close() and sleep() return, and the scheduler runs every thread
NextLinkFair == NextLinkWithin(FairMaxPuts)

SpecLinkFair ==
    /\ Init /\ [][NextLinkFair]_vars
    /\ \A w \in Workers : WF_vars(bt_finally(w))

\* SpecScore: distance_to_reading called on its own, with every distance in
\* 0..MaxDist and every maximum in -MaxNegDist..MaxMaxDist
call_distance_to_reading(dist, max_dist) ==
    /\ reading_dist' = dist
    /\ reading_max_dist' = max_dist
    /\ reading' = distance_to_reading(dist, max_dist)
    /\ UNCHANGED << gameVars, holeVars, touchVars, clockVars, histVars, linkVars >>

NextScore ==
    \E dist \in 0..MaxDist, max_dist \in (0 - MaxNegDist)..MaxMaxDist :
        call_distance_to_reading(dist, max_dist)

SpecScore == Init /\ [][NextScore]_vars

\* ------------------------------------------------------------------------
\* Properties
\* ------------------------------------------------------------------------
\* entries appended to the score histories since the turn began
TurnCredits == turn_touch_credits + turn_hole_credits

\* a step of next_player, called directly or by the Clock
NextPlayerStep == next_player \/ scheduled_next_player

\* next_player called n times in a row
RECURSIVE next_player_times(_, _)
next_player_times(g, n) ==
    IF n = 0 THEN g ELSE next_player_times(next_player_body(g), n - 1)

\* C1: in a turn in which a touch placement was credited (and the ball was
\* not taken back with replace_ball), no hole event is credited as well: one
\* touch and one sensor event in a turn append exactly one entry.
C1_HoleEventAfterTouchIsNoOp ==
    (~turn_replaced /\ turn_touch_credits >= 1) => turn_hole_credits = 0

C3_OneCreditPerTurn == TurnCredits <= 1

\* C4: once current_round exceeds MAX_ROUNDS, next_player, touch placements
\* and hole events change neither the score histories nor current_round.
C4_FinishedGameIsFrozen ==
    [][(/\ current_round > MAX_ROUNDS
        /\ \/ NextPlayerStep
           \/ _place_ball
           \/ \E touch \in TouchInputs : on_touch_down(touch)
           \/ \E hole_id \in HoleEventIds : handle_hole_event(hole_id))
       => UNCHANGED << player_scores, current_round >>]_vars

\* C5: with players registered, 1 <= current_round <= MAX_ROUNDS.
C5_RoundInRange ==
    Len(players) > 0 => (1 <= current_round /\ current_round <= MAX_ROUNDS)

\* C6: with players registered, 0 <= current_player_index < len(players).
C6_IndexInRange ==
    Len(players) > 0 =>
        (0 <= current_player_index /\ current_player_index < Len(players))

\* C6 witness: register_players has run with a smaller count while a
\* next_player scheduled by a hole event is still pending
C6_Witness ==
    /\ shrunk_pending /\ next_player_scheduled > 0
    /\ Len(players) = 1 /\ ~game_started /\ current_round = 1

\* C7: with players registered, len(players) calls of next_player lead back
\* to the same current_player_index and current_player, in the next round.
C7_FullCycleReturns ==
    Len(players) > 0 =>
        LET g == next_player_times(Game, Len(players))
        IN  /\ g.current_player_index = current_player_index
            /\ g.current_player = current_player
            /\ g.current_round = current_round + 1

\* C8 as claimed: every turn is a placement opportunity, i.e. while nothing
\* has been credited in the turn of a started game, a touch on the green is
\* accepted.
C8_EveryTurnIsAnOpportunity ==
    (/\ Len(players) > 0 /\ game_started /\ TurnCredits = 0
     /\ _accept_touches /\ mode_selected /\ mode = "Normal")
    => TouchAccepted(TouchOnHole)

\* the scenario of C8 before its first next_player: two players, round 1,
\* Player 1 has placed the ball on hole 2 and holds MAX_READING
C8_ScenarioPlayer1Placed ==
    /\ Len(players) = 2 /\ game_started
    /\ current_round = 1 /\ current_player_index = 0
    /\ ball_placed
    /\ player_scores["Player 1"] = << MAX_READING >>
    /\ player_scores["Player 2"] = << >>

\* C8, amended: the ball is locked per round, not per turn.
\*  - a turn that starts locked is never the first player's turn of a round
\*    within MAX_ROUNDS;
\*  - next_player unlocks the ball exactly when it wraps around to a round
\*    within MAX_ROUNDS, and keeps the lock otherwise;
\*  - _place_ball appends one entry to the current player's history exactly
\*    when the ball is not locked, MAX_READING for a touch on hole 2;
\*  - in the scenario, the first next_player makes Player 2 active in the
\*    same round with the ball still locked, so that no touch is accepted,
\*    and the next one wraps to round 2 and unlocks the ball.
C8_BallLockedPerRound ==
    /\ []((game_started /\ TurnCredits = 0 /\ ball_placed) =>
            (current_player_index > 0 \/ current_round > MAX_ROUNDS))
    /\ [][(Len(players) > 0 /\ NextPlayerStep) =>
            ball_placed' =
                IF current_player_index' = 0 /\ current_round' <= MAX_ROUNDS
                THEN FALSE ELSE ball_placed]_vars
    /\ [][_place_ball =>
            IF ball_placed
            THEN UNCHANGED player_scores
            ELSE /\ Len(player_scores'[current_player])
                        = Len(player_scores[current_player]) + 1
                 /\ (_touch_x = TouchOnHole[1] - WidgetX
                        /\ _touch_y = TouchOnHole[2] - WidgetY)
                    => player_scores'[current_player]
                        = Append(player_scores[current_player], MAX_READING)]_vars
    /\ [][(C8_ScenarioPlayer1Placed /\ NextPlayerStep) =>
            /\ current_player' = "Player 2" /\ current_player_index' = 1
            /\ current_round' = 1
            /\ \A touch \in TouchInputs : ~TouchAccepted(touch)'
            /\ UNCHANGED player_scores]_vars
    /\ [][(Len(players) = 2 /\ current_round = 1 /\ current_player_index = 1
                /\ NextPlayerStep) =>
            /\ current_round' = 2 /\ current_player_index' = 0
            /\ current_player' = "Player 1" /\ ~ball_placed']_vars

\* C8 witness: the scenario after its first next_player: Player 2's turn has
\* begun, nothing is credited in it, and the ball is still locked
C8_Witness ==
    /\ Len(players) = 2 /\ game_started
    /\ current_round = 1 /\ current_player_index = 1
    /\ current_player = "Player 2"
    /\ TurnCredits = 0 /\ ball_placed
    /\ ball_x = TouchOnHole[1] - WidgetX /\ ball_y = TouchOnHole[2] - WidgetY
    /\ player_scores["Player 1"] = << MAX_READING >>
    /\ player_scores["Player 2"] = << >>
    /\ _accept_touches /\ mode_selected /\ mode = "Normal"

\* C9: a next_player that starts a new round resets every hole's last score:
\* holes[i].last_points and live_points_by_hole[i].
C9_NewRoundClearsLastPoints ==
    [][(NextPlayerStep /\ current_round' = current_round + 1) =>
            \A i \in HoleIds : holes'[i] = None /\ live_points_by_hole'[i] = None]_vars

\* C10: start_game changes nothing when no players are registered; otherwise
\* it sets game_started, current_round = 1, current_player_index = 0 and
\* unlocks placement.
C10_StartGameResets ==
    [][start_game =>
            IF Len(players) = 0
            THEN UNCHANGED vars
            ELSE /\ game_started'
                 /\ current_round' = 1
                 /\ current_player_index' = 0
                 /\ ~ball_placed']_vars

\* clamp(count, 1, 3)
ClampedCount(count) ==
    IF count < 1 THEN 1 ELSE IF count > MAX_PLAYERS THEN MAX_PLAYERS ELSE count

\* C11: register_players(count) can be called with every count, registers
\* exactly clamp(count, 1, 3) players and resets every score history to
\* empty, current_round to 1, current_player_index to 0 and ball_placed to
\* false.
C11_RegisterPlayersClamps ==
    /\ [](\A count \in MinCount..MaxCount : ENABLED register_players(count))
    /\ [][\A count \in MinCount..MaxCount :
            register_players(count) =>
                /\ Len(players') = ClampedCount(count)
                /\ DOMAIN player_scores' = {players'[i] : i \in 1..Len(players')}
                /\ \A p \in DOMAIN player_scores' : player_scores'[p] = << >>
                /\ current_round' = 1
                /\ current_player_index' = 0
                /\ ~ball_placed']_vars

\* C11 witness: register_players was just called with a count above
\* MAX_PLAYERS, after a ball had been placed on the green
C11_Witness ==
    /\ registered_count # None /\ registered_count > MAX_PLAYERS
    /\ Len(players) = MAX_PLAYERS
    /\ TotalEntries(player_scores) = 0
    /\ current_round = 1 /\ current_player_index = 0
    /\ ball_x # OffGreen /\ ~ball_placed

\* C12: clear_scores empties every registered player's history and leaves
\* players, current_player_index, current_player, current_round, ball_placed
\* and game_started unchanged.
C12_ClearScoresFrame ==
    [][clear_scores =>
            /\ \A i \in 1..Len(players) : player_scores'[players[i]] = << >>
            /\ UNCHANGED << players, current_player_index, current_player,
                            current_round, ball_placed, game_started >>]_vars

\* C12 witness: an entry was credited in this turn and the histories are
\* empty again, in a game in which an earlier player held an entry as well
C12_Witness ==
    /\ TurnCredits >= 1 /\ TotalEntries(player_scores) = 0
    /\ Len(players) >= 2 /\ current_player_index >= 1
    /\ game_started /\ ball_placed

\* C13: while game_started is false, no touch, no _place_ball callback and no
\* hole event appends to a score history.
C13_NoCreditBeforeStart ==
    [][(/\ ~game_started
        /\ \/ _place_ball
           \/ \E touch \in TouchInputs : on_touch_down(touch)
           \/ \E hole_id \in HoleEventIds : handle_hole_event(hole_id))
       => UNCHANGED player_scores]_vars

\* C14: nothing is lost, duplicated or reordered between bt_event_queue.put
\* and handle_hole_event: the ids handled, then those scheduled, then those
\* still on the queue, are the ids put, in the order they were put.
C14_FunnelKeepsEveryIdInOrder ==
    put_log = handled_log \o bt_events_scheduled \o bt_event_queue

\* C14 witness: the ids of two different threads (each receives the lines of
\* its own hole) were put and have been handled
C14_Witness ==
    /\ Len(put_log) >= 2 /\ Len(handled_log) >= 2
    /\ put_log[1] \in Workers /\ put_log[2] \in Workers
    /\ put_log[1] # put_log[2]
    /\ handled_log[1] = put_log[1] /\ handled_log[2] = put_log[2]

\* the ids a line yields as C15 describes it: one id when the line has
\* exactly three fields, "HOLE", an integer and a flag starting with "1"
LineAsClaimed(line) ==
    LET parts == Split(Strip(DecodeIgnore(line)), ":")
    IN  IF /\ Len(parts) = 3
           /\ parts[1] = HOLE
           /\ ParseInt(parts[2]).ok
           /\ parts[3] # << >> /\ parts[3][1] = "1"
        THEN << ParseInt(parts[2]).value >>
        ELSE << >>

RECURSIVE BufferAsClaimed(_)
BufferAsClaimed(buffer) ==
    LET i == IndexOf(buffer, "\n")
    IN  IF i = 0 THEN << >>
        ELSE LineAsClaimed(SubSeq(buffer, 1, i - 1))
                \o BufferAsClaimed(SubSeq(buffer, i + 1, Len(buffer)))

\* C15: a received line puts an id N on the queue exactly when it has
\* exactly three colon-separated fields, "HOLE", an integer N and a flag
\* starting with "1"; every other line puts nothing.
C15_DecodesExactlyThreeFields ==
    [][\A w \in Workers : \A data \in RecvChunks(w) :
            bt_recv_data(w, data) =>
                put_log' = put_log \o BufferAsClaimed(worker_buffer[w] \o data)]_vars

\* C16: a worker thread never terminates, is never left without a step to
\* take (whatever the device sends), has closed its socket whenever it scans
\* again, and after every
\* failure (the finally block is reached) it is eventually scanning again.
C16_WorkerAlwaysRetries ==
    /\ [](\A w \in Workers :
            /\ worker_pc[w] # "dead"
            /\ worker_pc[w] # "not_started" =>
                  ENABLED (\/ \E outcome \in ScanOutcomes : bt_discover(w, outcome)
                           \/ \E outcome \in ConnectOutcomes : bt_connect(w, outcome)
                           \/ \E failure \in RecvFailures : bt_recv_fails(w, failure)
                           \/ bt_finally(w))
            /\ worker_pc[w] = "scan" => worker_sock[w] # "open")
    /\ \A w \in Workers : (worker_pc[w] = "finally") ~> (worker_pc[w] = "scan")

\* C16 witness: one thread has lost its connection, closed its socket and is
\* scanning again, while the other one is in its finally block after a
\* failure and has yet to close its socket
C16_Witness ==
    \E w, v \in Workers :
        /\ w # v
        /\ worker_pc[w] = "scan" /\ worker_sock[w] = "closed"
        /\ worker_pc[v] = "finally" /\ worker_sock[v] = "open"

\* C17: distance_to_reading(dist, max_dist) is an integer in
\* [MIN_READING, MAX_READING] for dist >= 0 and max_dist > 0, is
\* non-decreasing in dist for a fixed max_dist, and is MIN_READING for
\* max_dist = 0 and max_dist < 0.
C17_ReadingInRangeAndMonotone ==
    reading # None =>
        /\ reading_max_dist > 0 =>
              /\ reading \in MIN_READING..MAX_READING
              /\ \A d \in 0..reading_dist :
                    distance_to_reading(d, reading_max_dist) <= reading
        /\ reading_max_dist <= 0 => reading = MIN_READING

\* C17 witness: a call with a positive distance and a negative max_dist has
\* returned MIN_READING
C17_Witness ==
    /\ reading # None
    /\ reading_max_dist < 0 /\ reading_dist > 0 /\ reading = MIN_READING

\* C18: with players registered, a hole event for a configured hole places
\* the ball on the hole, appends exactly MAX_READING to the history of
\* players[current_player_index] and schedules exactly one next_player.
C18_HoleEventCreditsTurnHolder ==
    [][\A hole_id \in HoleEventIds \cap HoleIds :
            (handle_hole_event(hole_id) /\ Len(players) > 0) =>
                /\ ball_placed'
                /\ ball_x' = get_scaled_hole_pos(hole_id)[1] - WidgetX
                /\ ball_y' = get_scaled_hole_pos(hole_id)[2] - WidgetY
                /\ player_scores' =
                      AppendScore(player_scores, players[current_player_index + 1],
                                  MAX_READING)
                /\ next_player_scheduled' = next_player_scheduled + 1]_vars

\* C19: handle_hole_event with an id that is not a configured hole leaves the
\* score histories, ball_placed, the ball position, the current player and
\* the round unchanged and schedules no next_player.
C19_UnknownHoleChangesNothing ==
    [][\A hole_id \in HoleEventIds \ HoleIds :
            handle_hole_event(hole_id) =>
                UNCHANGED << player_scores, ball_placed, ball_x, ball_y, current_player,
                             current_player_index, current_round,
                             next_player_scheduled >>]_vars

\* C19 witness: the event of hole 3 was handled, then an event with the
\* unknown id 9: still one entry and one scheduled next_player
C19_Witness ==
    /\ handled_log = << 3, 9 >>
    /\ TotalEntries(player_scores) = 1
    /\ next_player_scheduled = 1
    /\ ball_placed /\ current_player_index = 0
    /\ ball_x = get_scaled_hole_pos(3)[1] - WidgetX

\* C20: with players registered, current_player = players[current_player_index].
C20_CurrentPlayerMatchesIndex ==
    Len(players) > 0 => current_player = players[current_player_index + 1]
====
